---------------------------- MODULE Spec2Model ----------------------------
(***************************************************************************)
(* Model of node-adb-telecom: the dumpsys-telecom parser, the raw-text     *)
(* field scanners and the poll-driven call-state classifier.               *)
(*                                                                         *)
(* The repository holds three near-identical programs:                     *)
(*   "cli1"   src/script.js:1-199     synchronous poller, console table    *)
(*   "cli2"   src/script.js:201-417   asynchronous poller, console table   *)
(*   "server" src/unnamed/part_000    asynchronous poller + HTTP API       *)
(* Where they differ the operator takes the program as a parameter.        *)
(*                                                                         *)
(* Specifications:                                                         *)
(*   Spec          the poll tick after its fetch, one dump per tick        *)
(*   SpecRoutines  the extraction routines, addField and the duration      *)
(*   SpecParse     parseDump, one line per step                            *)
(*   SpecAsync     device functions with their retry, overlapping ticks    *)
(*                 and the HTTP API                                        *)
(*                                                                         *)
(* JavaScript strings are TLA+ strings; positions are 0-based as in the    *)
(* source, so the index arithmetic of the code is kept as written.         *)
(***************************************************************************)
EXTENDS Integers, Sequences, FiniteSets, TLC

VARIABLES
  prog,             \* which of the three programs runs
  running,          \* FALSE once an uncaught exception has ended the process
  prevPhoneState,   \* let prevPhoneState
  inCallStartTime,  \* let inCallStartTime
  callStatus,       \* let callStatus (server); the row given to console.table (cli)
  now,              \* Date.now() at the latest tick
  last,             \* what the latest tick read and did
  arg,              \* the arguments of the routine under study
  ret,              \* what the routine returned for them
  deviceId,         \* let deviceId
  tasks,            \* the calls of the asynchronous device functions in flight
  http,             \* the latest HTTP request and its response
  obs               \* what was observed of the run so far

-----------------------------------------------------------------------------
(* String primitives of the JavaScript runtime used by the code.           *)

\* str.length
StrLen(s) == Len(s)

\* str[i], 0-based; "" past the end
CharAt(s, i) == IF i >= 0 /\ i < Len(s) THEN SubSeq(s, i + 1, i + 1) ELSE ""

\* str.slice(a, b) for 0 <= a, 0-based, b exclusive
Slice(s, a, b) ==
  LET e == IF b > Len(s) THEN Len(s) ELSE b
  IN  IF a >= e THEN "" ELSE SubSeq(s, a + 1, e)

\* str.slice(a)
SliceFrom(s, a) == Slice(s, a, Len(s))

\* the characters \s matches and trim() strips (those that occur in the inputs)
WhiteSpace == {" ", "\t", "\r", "\n", "\f"}

\* the characters the regular expression dot does not match
LineTerminators == {"\n", "\r"}

\* the least and the greatest element of a non-empty set of integers
MinOf(S) == CHOOSE i \in S : \A j \in S : i <= j
MaxOf(S) == CHOOSE i \in S : \A j \in S : j <= i

\* str.search(/\S/)
SearchNonWs(s) ==
  LET S == {i \in 0..(Len(s) - 1) : CharAt(s, i) \notin WhiteSpace}
  IN  IF S = {} THEN -1 ELSE MinOf(S)

\* str.trim()
Trim(s) ==
  LET S == {i \in 0..(Len(s) - 1) : CharAt(s, i) \notin WhiteSpace}
  IN  IF S = {} THEN "" ELSE Slice(s, MinOf(S), MaxOf(S) + 1)

\* str.indexOf(tok, from)
IndexOf(s, tok, from) ==
  LET lo == IF from < 0 THEN 0 ELSE from
      S  == {i \in lo..(Len(s) - Len(tok)) : Slice(s, i, i + Len(tok)) = tok}
  IN  IF S = {} THEN -1 ELSE MinOf(S)

\* the lines between the line feeds at the positions nls (ascending), a
\* carriage return before a line feed belonging to the separator
RECURSIVE LinesBetween(_, _, _)
LinesBetween(s, start, nls) ==
  IF nls = {} THEN << Slice(s, start, Len(s)) >>
  ELSE LET i == MinOf(nls)
           e == IF i > start /\ CharAt(s, i - 1) = "\r" THEN i - 1 ELSE i
       IN  << Slice(s, start, e) >> \o LinesBetween(s, i + 1, nls \ {i})

\* str.split(/\r?\n/)
SplitLines(s) == LinesBetween(s, 0, {i \in 0..(Len(s) - 1) : CharAt(s, i) = "\n"})

UpperCase == "ABCDEFGHIJKLMNOPQRSTUVWXYZ"
LowerCase == "abcdefghijklmnopqrstuvwxyz"

LowerChar(c) ==
  LET k == IndexOf(UpperCase, c, 0)
  IN  IF c # "" /\ k # -1 THEN CharAt(LowerCase, k) ELSE c

RECURSIVE ToLowerFrom(_, _)
ToLowerFrom(s, i) ==
  IF i >= Len(s) THEN "" ELSE LowerChar(CharAt(s, i)) \o ToLowerFrom(s, i + 1)

\* str.toLowerCase()
ToLowerCase(s) == ToLowerFrom(s, 0)

Digits == "0123456789"

IsDigit(c) == c # "" /\ IndexOf(Digits, c, 0) # -1

AllDigitsFrom(s, i) == \A k \in i..(Len(s) - 1) : IsDigit(CharAt(s, k))

RECURSIVE DigitsValue(_, _, _)
DigitsValue(s, i, acc) ==
  IF i >= Len(s) THEN acc
  ELSE DigitsValue(s, i + 1, acc * 10 + IndexOf(Digits, CharAt(s, i), 0))

\* The numeric literals of the inputs are optionally signed decimal integers
\* (no fraction, exponent, radix prefix or Infinity occurs in them).
IsNumericLiteral(s) ==
  LET t    == Trim(s)
      body == IF CharAt(t, 0) \in {"+", "-"} THEN SliceFrom(t, 1) ELSE t
  IN  t = "" \/ (body # "" /\ AllDigitsFrom(body, 0))

\* Number(str) of a string that IsNumericLiteral
ToNumber(s) ==
  LET t == Trim(s)
  IN  IF t = "" THEN 0
      ELSE IF CharAt(t, 0) = "-" THEN 0 - DigitsValue(t, 1, 0)
      ELSE IF CharAt(t, 0) = "+" THEN DigitsValue(t, 1, 0)
      ELSE DigitsValue(t, 0, 0)

RECURSIVE NatToString(_)
NatToString(n) ==
  IF n < 10 THEN CharAt(Digits, n)
  ELSE NatToString(n \div 10) \o CharAt(Digits, n % 10)

\* String(n) of an integer
IntToString(n) == IF n < 0 THEN "-" \o NatToString(0 - n) ELSE NatToString(n)

\* str.padStart(2, '0')
PadStart2(s) == IF Len(s) >= 2 THEN s ELSE IF Len(s) = 1 THEN "0" \o s ELSE "00"

-----------------------------------------------------------------------------
(* JavaScript values.  A parsed value is a tagged record; objects live in   *)
(* a heap (a sequence of property maps) and are referred to by index, so    *)
(* that the parser's writes through a stack frame reach the tree.           *)

Undefined == [t |-> "undefined"]
Null      == [t |-> "null"]
Str(s)    == [t |-> "string", v |-> s]
Num(n)    == [t |-> "number", v |-> n]
Bool(b)   == [t |-> "boolean", v |-> b]
Arr(es)   == [t |-> "array", v |-> es]
Ref(id)   == [t |-> "object", v |-> id]
Native(n) == [t |-> "function", v |-> n]
\* a raised TypeError, as the result of an expression
Thrown    == [t |-> "throw"]

\* The property names every object literal {} inherits from Object.prototype
\* (the accessor __proto__ is left out: no input of this model uses it).
ObjectProtoKeys ==
  { "constructor", "hasOwnProperty", "isPrototypeOf", "propertyIsEnumerable",
    "toLocaleString", "toString", "valueOf" }

\* the empty object literal {}
EmptyObject == [k \in {} |-> Undefined]

\* ToBoolean(val)
Truthy(val) ==
  CASE val.t = "undefined" -> FALSE
    [] val.t = "null"      -> FALSE
    [] val.t = "boolean"   -> val.v
    [] val.t = "number"    -> val.v # 0
    [] val.t = "string"    -> val.v # ""
    [] OTHER               -> TRUE

\* key in obj, for an object of the heap
HasProperty(heap, id, key) == key \in DOMAIN heap[id] \/ key \in ObjectProtoKeys

\* obj[key], for an object of the heap
GetOwnOrInherited(heap, id, key) ==
  IF key \in DOMAIN heap[id] THEN heap[id][key]
  ELSE IF key \in ObjectProtoKeys THEN Native(key)
  ELSE Undefined

\* val[key] for the property names the code reads (CallsManager,
\* mCallAudioManager, 'All calls', _items, direction, 'Call <id>'): a
\* primitive, an array or a function has none of them.
GetProperty(heap, val, key) ==
  CASE val.t \in {"undefined", "null", "throw"} -> Thrown
    [] val.t = "object" -> GetOwnOrInherited(heap, val.v, key)
    [] OTHER -> IF key \in ObjectProtoKeys THEN Native(key) ELSE Undefined

\* a && b
AndAlso(a, b) == IF Truthy(a) THEN b ELSE a

\* a || b
OrElse(a, b) == IF Truthy(a) THEN a ELSE b

\* String(val) as a template literal computes it: an object whose toString
\* (own property written by addField, never callable) is shadowed cannot be
\* converted, the inherited valueOf returning the object itself.
ToStringJS(heap, val) ==
  CASE val.t = "string"    -> val
    [] val.t = "number"    -> Str(IntToString(val.v))
    [] val.t = "boolean"   -> Str(IF val.v THEN "true" ELSE "false")
    [] val.t = "null"      -> Str("null")
    [] val.t = "undefined" -> Str("undefined")
    [] val.t = "object"    ->
         IF "toString" \in DOMAIN heap[val.v] THEN Thrown
         ELSE Str("[object Object]")
    [] OTHER               -> Thrown

-----------------------------------------------------------------------------
(* parsePrimitive, addField, parseDump                                      *)

\* src/script.js:63-67
parsePrimitive(str) ==
  IF Len(str) \in {4, 5} /\ ToLowerCase(str) \in {"true", "false"}
  THEN Bool(ToLowerCase(str) = "true")
  ELSE IF IsNumericLiteral(str) /\ Trim(str) # "" THEN Num(ToNumber(str))
  ELSE Str(str)

\* obj[key] = val on the heap
SetProperty(heap, id, key, val) ==
  [heap EXCEPT ![id] =
     [k \in DOMAIN heap[id] \cup {key} |-> IF k = key THEN val ELSE heap[id][k]]]

\* src/script.js:53-57
addField(heap, id, key, val) ==
  LET cur == GetOwnOrInherited(heap, id, key)
  IN  IF ~HasProperty(heap, id, key) THEN SetProperty(heap, id, key, val)
      ELSE IF cur.t = "array" THEN SetProperty(heap, id, key, Arr(Append(cur.v, val)))
      ELSE SetProperty(heap, id, key, Arr(<< cur, val >>))

\* text.match(/^([^:]+):\s*(.*)$/): the key runs to the first colon and is
\* not empty, \s* takes the white space after it, and the rest must hold no
\* line terminator.
SkipWs(s, i) ==
  LET S == {k \in i..(Len(s) - 1) : CharAt(s, k) \notin WhiteSpace}
  IN  IF S = {} THEN (IF i > Len(s) THEN i ELSE Len(s)) ELSE MinOf(S)

HasLineTerminator(s, i) == \E k \in i..(Len(s) - 1) : CharAt(s, k) \in LineTerminators

\* the match of /^([^:]*):\s*(.*)$/, which lets the key be empty
MatchKeyValueEmptyKey(text) ==
  LET c    == IndexOf(text, ":", 0)
      rest == SliceFrom(text, SkipWs(text, c + 1))
  IN  IF c < 0 \/ HasLineTerminator(rest, 0)
      THEN [ok |-> FALSE, key |-> "", value |-> ""]
      ELSE [ok |-> TRUE, key |-> Slice(text, 0, c), value |-> rest]

MatchKeyValue(text) ==
  LET c    == IndexOf(text, ":", 0)
      rest == SliceFrom(text, SkipWs(text, c + 1))
  IN  IF c < 1 \/ HasLineTerminator(rest, 0)
      THEN [ok |-> FALSE, key |-> "", value |-> ""]
      ELSE [ok |-> TRUE, key |-> Slice(text, 0, c), value |-> rest]

\* lines.indexOf(raw): the first line equal to raw
LinesIndexOf(lines, raw, i) ==
  LET S == {k \in i..(Len(lines) - 1) : lines[k + 1] = raw}
  IN  IF S = {} THEN -1 ELSE MinOf(S)

\* while (j < lines.length && !(nextRaw = lines[j].trim())) j++
SkipBlankLines(lines, j) ==
  LET S == {k \in j..(Len(lines) - 1) : Trim(lines[k + 1]) # ""}
  IN  IF S = {} THEN (IF j > Len(lines) THEN j ELSE Len(lines)) ELSE MinOf(S)

\* the loop with `indent < ...`, which keeps the frame of a sibling
RECURSIVE PopFramesBelow(_, _)
PopFramesBelow(stack, indent) ==
  IF Len(stack) > 1 /\ indent < stack[Len(stack)].indent
  THEN PopFramesBelow(SubSeq(stack, 1, Len(stack) - 1), indent)
  ELSE stack

\* while (stack.length > 1 && indent <= stack[stack.length - 1].indent) stack.pop()
RECURSIVE PopFrames(_, _)
PopFrames(stack, indent) ==
  IF Len(stack) > 1 /\ indent <= stack[Len(stack)].indent
  THEN PopFrames(SubSeq(stack, 1, Len(stack) - 1), indent)
  ELSE stack

\* the index after lines.indexOf(raw) from which the lookahead starts
LookaheadStart(lines, raw, i) == LinesIndexOf(lines, raw, 0) + 1

\* One iteration of the for loop (src/script.js:13-44) on line i (0-based)
\* of lines, from the parser state st = [heap, stack].
ParseLine(st, lines, i) ==
  LET raw == lines[i + 1]
  IN  IF Trim(raw) = "" THEN st
      ELSE
        LET indent == SearchNonWs(raw)
            text   == Trim(raw)
            stack  == PopFrames(st.stack, indent)
            parent == stack[Len(stack)].container
            m      == MatchKeyValue(text)
        IN  IF m.ok
            THEN IF m.value # ""
                 THEN [heap  |-> addField(st.heap, parent, m.key, parsePrimitive(m.value)),
                       stack |-> stack]
                 ELSE
                   LET j == SkipBlankLines(lines, LookaheadStart(lines, raw, i))
                       nextIndent == IF j < Len(lines) THEN SearchNonWs(lines[j + 1]) ELSE -1
                       obj == Len(st.heap) + 1
                   IN  IF nextIndent > indent
                       THEN [heap  |-> addField(Append(st.heap, EmptyObject), parent, m.key, Ref(obj)),
                             stack |-> Append(stack, [indent |-> indent, container |-> obj])]
                       ELSE [heap  |-> addField(st.heap, parent, m.key, Null),
                             stack |-> stack]
            ELSE [heap  |-> addField(st.heap, parent, "_items", Str(text)),
                  stack |-> stack]

RECURSIVE ParseFrom(_, _, _)
ParseFrom(st, lines, i) ==
  IF i >= Len(lines) THEN st ELSE ParseFrom(ParseLine(st, lines, i), lines, i + 1)

\* the parser state before the first line: root = {} is object 1 of the heap
ParseInit == [heap |-> << EmptyObject >>, stack |-> << [indent |-> -1, container |-> 1] >>]

\* src/script.js:8-47; returns the heap, whose object 1 is the root
parseDump(input) == ParseFrom(ParseInit, SplitLines(input), 0).heap

-----------------------------------------------------------------------------
(* The three programs, and the extraction routines.                         *)

Programs == {"cli1", "cli2", "server"}

\* The value state.CallsManager && state.CallsManager.mCallAudioManager
\*           && state.CallsManager.mCallAudioManager['All calls']
AllCallsNode(heap) ==
  LET cm  == GetProperty(heap, Ref(1), "CallsManager")
      cam == AndAlso(cm, GetProperty(heap, cm, "mCallAudioManager"))
  IN  AndAlso(cam, GetProperty(heap, cam, "All calls"))

\* items[0] of the normalised list: an accumulated array holds two or more
\* entries, anything else is wrapped as the only entry
FirstItem(items) ==
  IF items.t = "array"
  THEN (IF Len(items.v) > 0 THEN items.v[1] ELSE Undefined)
  ELSE items

\* items.length of the normalised list
ItemsLength(items) == IF items.t = "array" THEN Len(items.v) ELSE 1

\* src/script.js:82-92 (cli1), src/script.js:302-312 (cli2),
\* src/unnamed/part_000:189-199 (server).  An object it returns lives in the
\* heap parseDump(dump).
\* the return statement: items.length ? items[0] : null (cli1),
\* items[0] || null (cli2, server)
FirstCall(pg, items) ==
  IF pg = "cli1"
  THEN (IF ItemsLength(items) # 0 THEN FirstItem(items) ELSE Null)
  ELSE OrElse(FirstItem(items), Null)

\* the statements after const allCalls = ...
CallsOf(pg, heap, allCalls) ==
  IF ~Truthy(allCalls) THEN Null
  ELSE FirstCall(pg, GetProperty(heap, allCalls, "_items"))

\* the statements after const state = parseDump(dump)
getAllCallsIn(pg, heap) == CallsOf(pg, heap, AllCallsNode(heap))

getAllCalls(pg, dump) == getAllCallsIn(pg, parseDump(dump))

\* The loop of range(a, b, str) of the balanced-match package (the
\* dependency imported at src/script.js:3) for a = '{', b = '}': begs is the
\* stack of unmatched openers, [left, right] the outermost pair closed so
\* far.  Returns the pair [start, end], or found = FALSE.
RECURSIVE RangeLoop(_, _, _, _, _, _, _)
RangeLoop(str, ai, bi, i, begs, left, right) ==
  IF i < 0
  THEN (IF Len(begs) > 0
        THEN [found |-> TRUE, start |-> left, end |-> right]
        ELSE [found |-> FALSE, start |-> -1, end |-> -1])
  ELSE IF i = ai
  THEN LET ai2 == IndexOf(str, "{", i + 1)
       IN  RangeLoop(str, ai2, bi, IF ai2 < bi /\ ai2 >= 0 THEN ai2 ELSE bi,
                     Append(begs, i), left, right)
  ELSE IF Len(begs) = 1
  THEN [found |-> TRUE, start |-> begs[1], end |-> bi]
  ELSE LET beg   == IF Len(begs) > 0 THEN begs[Len(begs)] ELSE Len(str)
           rest  == IF Len(begs) > 0 THEN SubSeq(begs, 1, Len(begs) - 1) ELSE begs
           bi2   == IndexOf(str, "}", i + 1)
       IN  RangeLoop(str, ai, bi2, IF ai < bi2 /\ ai >= 0 THEN ai ELSE bi2, rest,
                     IF beg < left THEN beg ELSE left,
                     IF beg < left THEN bi ELSE right)

\* balanced('{', '}', str) as called at src/script.js:102: the first pair
\* that is closed, with its body; found = FALSE stands for undefined
range(str, ai, bi) ==
  IF ai >= 0 /\ bi > 0
  THEN RangeLoop(str, ai, bi, ai, << >>, Len(str), -1)
  ELSE [found |-> FALSE, start |-> -1, end |-> -1]

rangeFrom(str, ai) == range(str, ai, IndexOf(str, "}", ai + 1))

withBody(str, r) ==
  [found |-> r.found, start |-> r.start, end |-> r.end,
   body  |-> IF r.found THEN Slice(str, r.start + 1, r.end) ELSE ""]

balanced(str) == withBody(str, rangeFrom(str, IndexOf(str, "{", 0)))

\* the empty mapping {} as a result: a heap of its own
EmptyMapping == [threw |-> FALSE, heap |-> << EmptyObject >>, val |-> Ref(1)]

\* src/script.js:97-107.  callId lives in idHeap; the result is a value val
\* in heap, or threw when the template literal cannot convert callId.
\* return parsed[`Call ${callId}`] || {}
AnalyticsOf(parsed, found) ==
  IF Truthy(found) THEN [threw |-> FALSE, heap |-> parsed, val |-> found]
  ELSE EmptyMapping

\* const parsed = parseDump(block) and the return statement
AnalyticsIn(id, parsed) == AnalyticsOf(parsed, GetOwnOrInherited(parsed, 1, "Call " \o id))

\* if (!match) return {}; const block = startToken + match.body + '}'
AnalyticsMatch(id, startToken, match) ==
  IF ~match.found THEN EmptyMapping
  ELSE AnalyticsIn(id, parseDump(startToken \o match.body \o "}"))

\* if (idx === -1) return {}; const tail = ...; const match = balanced(...)
AnalyticsAt(dump, id, startToken, idx) ==
  IF idx = -1 THEN EmptyMapping
  ELSE AnalyticsMatch(id, startToken, balanced(SliceFrom(dump, idx + Len(startToken) - 1)))

\* const idx = dump.indexOf(startToken)
AnalyticsFrom(dump, id, startToken) ==
  AnalyticsAt(dump, id, startToken, IndexOf(dump, startToken, 0))

\* const startToken = `Call ${callId}:`, id being String(callId)
AnalyticsFor(dump, id) ==
  IF id.t = "throw" THEN [threw |-> TRUE, heap |-> << >>, val |-> Thrown]
  ELSE AnalyticsFrom(dump, id.v, "Call " \o id.v \o ":")

extractAnalytics(dump, callId, idHeap) == AnalyticsFor(dump, ToStringJS(idHeap, callId))

\* src/script.js:112-123
handleToken == "CALL_HANDLE (tel:"

\* dump.slice(numStart, commaIdx === -1 ? undefined : commaIdx).trim()
NumberBetween(dump, numStart, commaIdx) ==
  IF commaIdx = -1 THEN Str(Trim(SliceFrom(dump, numStart)))
  ELSE Str(Trim(Slice(dump, numStart, commaIdx)))

\* const numStart = handleIdx + handleToken.length; const commaIdx = ...
NumberFrom(dump, numStart) == NumberBetween(dump, numStart, IndexOf(dump, ",", numStart))

\* if (handleIdx === -1) return ''
NumberAtHandle(dump, handleIdx) ==
  IF handleIdx = -1 THEN Str("") ELSE NumberFrom(dump, handleIdx + Len(handleToken))

\* if (startIdx === -1) return ''; const handleIdx = dump.indexOf(handleToken, startIdx)
NumberAfter(dump, startIdx) ==
  IF startIdx = -1 THEN Str("")
  ELSE NumberAtHandle(dump, IndexOf(dump, handleToken, startIdx))

\* const startToken = `Call${callId}`, id being String(callId)
NumberFor(dump, id) ==
  IF id.t = "throw" THEN Thrown
  ELSE NumberAfter(dump, IndexOf(dump, "Call" \o id.v, 0))

getCallerNumber(dump, callId, idHeap) == NumberFor(dump, ToStringJS(idHeap, callId))

\* src/script.js:129-137
\* the slice taken with the comma that ends the state
StateBetweenInclusive(dump, start, end) ==
  IF end = -1 THEN Str(Trim(SliceFrom(dump, start)))
  ELSE Str(Trim(Slice(dump, start, end + 1)))

\* dump.slice(start, end === -1 ? undefined : end).trim()
StateBetween(dump, start, end) ==
  IF end = -1 THEN Str(Trim(SliceFrom(dump, start)))
  ELSE Str(Trim(Slice(dump, start, end)))

\* const start = idx + stateToken.length; const end = dump.indexOf(',', start)
StateFrom(dump, start) == StateBetween(dump, start, IndexOf(dump, ",", start))

\* if (idx === -1) return ''
StateAt(dump, stateToken, idx) ==
  IF idx = -1 THEN Str("") ELSE StateFrom(dump, idx + Len(stateToken))

\* const idx = dump.indexOf(stateToken)
StateAfter(dump, stateToken) == StateAt(dump, stateToken, IndexOf(dump, stateToken, 0))

\* const stateToken = `Call id=${callId}, state=`, id being String(callId)
StateFor(dump, id) ==
  IF id.t = "throw" THEN Thrown
  ELSE StateAfter(dump, "Call id=" \o id.v \o ", state=")

getCallState(dump, callId, idHeap) == StateFor(dump, ToStringJS(idHeap, callId))

-----------------------------------------------------------------------------
(* One poll tick: classification, timer, duration.                          *)

\* the mapping with the OUTGOING test made before the raw state is looked at
PhoneStateOfOutgoingFirst(currCall, direction, rawState) ==
  IF ~Truthy(currCall) THEN "IDLE"
  ELSE IF direction.t = "string" /\ direction.v = "OUTGOING" THEN "DIALING"
  ELSE IF rawState = "RINGING" THEN "RINGING"
  ELSE IF rawState = "DIALING" THEN "DIALING"
  ELSE "IN_CALL"

\* src/script.js:160-165
PhoneStateOf(currCall, direction, rawState) ==
  IF ~Truthy(currCall) THEN "IDLE"
  ELSE IF rawState = "RINGING" THEN "RINGING"
  ELSE IF rawState = "DIALING" THEN "DIALING"
  ELSE IF direction.t = "string" /\ direction.v = "OUTGOING" /\ rawState = ""
       THEN "DIALING"
  ELSE "IN_CALL"

\* src/script.js:145-165 and 193: the tick from the dump it fetched to the
\* phoneState and the callerID; threw when a template literal raises
Classified(currCall, direction, rawState, callerID) ==
  [threw |-> FALSE, currCall |-> currCall, direction |-> direction,
   rawState |-> rawState, callerID |-> callerID,
   phoneState |-> PhoneStateOf(currCall, direction, rawState)]

\* the tick ends at the first template literal that raises
ClassifyFields(currCall, analytics, rawState, callerID) ==
  IF analytics.threw
  THEN [threw |-> TRUE, currCall |-> currCall, direction |-> Str(""), rawState |-> "",
        callerID |-> Str(""), phoneState |-> ""]
  ELSE Classified(currCall,
                  OrElse(GetProperty(analytics.heap, analytics.val, "direction"), Str("")),
                  rawState.v, callerID)

\* direction, rawState and callerID of currCall, a value of heap:
\* currCall ? extractAnalytics(dump, currCall).direction || '' : '', and so on
ClassifyCall(dump, heap, currCall) ==
  IF Truthy(currCall)
  THEN ClassifyFields(currCall, extractAnalytics(dump, currCall, heap),
                      getCallState(dump, currCall, heap),
                      getCallerNumber(dump, currCall, heap))
  ELSE ClassifyFields(currCall, EmptyMapping, Str(""), Str(""))

ClassifyIn(pg, dump, heap) == ClassifyCall(dump, heap, getAllCallsIn(pg, heap))

Classify(pg, dump) == ClassifyIn(pg, dump, parseDump(dump))

MsPerHour   == 3600000
MsPerMinute == 60000
MsPerSecond == 1000

\* src/script.js:177-186: the duration string from the start timestamp (a
\* number or null) and the second Date.now() of the tick
FormatDuration(start, t) ==
  IF Truthy(start)
  THEN LET diff == t - start.v
           h == PadStart2(IntToString(diff \div MsPerHour))
           m == PadStart2(IntToString((diff % MsPerHour) \div MsPerMinute))
           sec == PadStart2(IntToString(((diff % MsPerHour) % MsPerMinute) \div MsPerSecond))
       IN  h \o ":" \o m \o ":" \o sec
  ELSE "00:00:00"

\* the timer started only when the call is entered from IDLE
StartsTimerFromIdle(phoneState, prev) == phoneState = "IN_CALL" /\ prev = "IDLE"

\* the timer started on every IN_CALL tick
StartsTimerAlways(phoneState, prev) == phoneState = "IN_CALL"

\* src/script.js:168 / src/unnamed/part_000:324
StartsTimer(phoneState, prev) == phoneState = "IN_CALL" /\ prev # "IN_CALL"

\* src/script.js:172 (cli1) / src/script.js:392, src/unnamed/part_000:328
ResetsTimer(pg, phoneState, prev) ==
  IF pg = "cli1" THEN phoneState = "IDLE" /\ prev = "IN_CALL"
  ELSE phoneState = "IDLE"

\* inCallStartTime after the two ifs, t being the first Date.now() of the tick
TimerAfter(pg, phoneState, prev, start, t) ==
  IF ResetsTimer(pg, phoneState, prev) THEN Null
  ELSE IF StartsTimer(phoneState, prev) THEN Num(t)
  ELSE start

-----------------------------------------------------------------------------
(* The dumps a poll tick may fetch.                                         *)

CallsHeader == "CallsManager:\n  mCallAudioManager:\n    All calls:\n"
CallItem(id) == "      " \o id \o "\n"
StateLine(id, st) == "  Call id=" \o id \o ", state=" \o st \o ", tpac=x\n"
AnalyticsEntry(id, dir) ==
  "Call " \o id \o ": {\n    startTime: 7\n    direction: " \o dir \o "\n  }\n"
AnalyticsBlock(id, dir) == "Analytics:\n  " \o AnalyticsEntry(id, dir)
HandleLine(id, tel) == "CallEvents:\n  Call" \o id \o " created, CALL_HANDLE (tel:" \o tel \o ", x)\n"

\* no call: "All calls:" has no nested line
DumpIdle == CallsHeader \o "    Ringing calls:\n"
\* no CallsManager path at all
DumpNoPath == "Analytics:\n  x: 1\n"
DumpRinging ==
  CallsHeader \o CallItem("TC@1") \o StateLine("TC@1", "RINGING")
    \o AnalyticsBlock("TC@1", "INCOMING") \o HandleLine("TC@1", "+111")
DumpDialing ==
  CallsHeader \o CallItem("TC@2") \o StateLine("TC@2", "DIALING")
    \o AnalyticsBlock("TC@2", "OUTGOING") \o HandleLine("TC@2", "+222")
\* outgoing, no state token
DumpOutgoingNoState ==
  CallsHeader \o CallItem("TC@2") \o AnalyticsBlock("TC@2", "OUTGOING")
    \o HandleLine("TC@2", "+222")
DumpActiveIn ==
  CallsHeader \o CallItem("TC@1") \o StateLine("TC@1", "ACTIVE")
    \o AnalyticsBlock("TC@1", "INCOMING") \o HandleLine("TC@1", "+111")
DumpActiveOut ==
  CallsHeader \o CallItem("TC@2") \o StateLine("TC@2", "ACTIVE")
    \o AnalyticsBlock("TC@2", "OUTGOING") \o HandleLine("TC@2", "+222")
\* the three fields on one line each, as quoted in scenario B
DumpInlineB ==
  "CallsManager:\n  mCallAudioManager:\n    All calls: TC@1\n"
    \o "Call id=TC@1, state=RINGING,\nCall TC@1: { direction: INCOMING }\n"
\* the call listed under "All calls:", the other two fields as quoted
DumpInlineAnalytics ==
  CallsHeader \o CallItem("TC@1")
    \o "Call id=TC@1, state=RINGING,\nCall TC@1: { direction: INCOMING }\n"
\* malformed: a numeric direction
DumpNumericDirection ==
  CallsHeader \o CallItem("TC@1") \o StateLine("TC@1", "ACTIVE")
    \o AnalyticsBlock("TC@1", "42")
\* malformed: the first item is a block that shadows toString
DumpShadowToString == CallsHeader \o "      _items:\n        toString: x\n"

PollDumps ==
  << DumpIdle, DumpNoPath, DumpRinging, DumpDialing, DumpOutgoingNoState,
     DumpActiveIn, DumpActiveOut, DumpInlineB, DumpInlineAnalytics,
     DumpNumericDirection, DumpShadowToString >>

\* What getTelephoneDump returns for the device output raw: the output as
\* it is (src/script.js:73-74), trimmed in the asynchronous programs
\* (src/script.js:232, src/unnamed/part_000:53)
Fetched(pg, raw) == IF pg = "cli1" THEN raw ELSE Trim(raw)

\* Classify on every dump of PollDumps, by program
RECURSIVE ClassifyUpTo(_, _)
ClassifyUpTo(p, d) ==
  IF d = 0 THEN << >>
  ELSE Append(ClassifyUpTo(p, d - 1), Classify(p, Fetched(p, PollDumps[d])))

ClassifyTable ==
  [cli1   |-> ClassifyUpTo("cli1", Len(PollDumps)),
   cli2   |-> ClassifyUpTo("cli2", Len(PollDumps)),
   server |-> ClassifyUpTo("server", Len(PollDumps))]

-----------------------------------------------------------------------------
(* The poller as a state machine.                                           *)

\* the clock at start, the greatest clock value explored, the greatest
\* distance between the two Date.now() reads of one tick (milliseconds)
ClockStart == 1000
MaxNow     == 8000
MaxJitter  == 1

\* the time between two ticks: the poll interval or more
Advances == {1000, 5000}

pollerVars == << prog, running, prevPhoneState, inCallStartTime, callStatus, now, last >>
deviceVars == << deviceId, tasks, http, obs >>
vars == << prog, running, prevPhoneState, inCallStartTime, callStatus, now, last,
           arg, ret, deviceId, tasks, http, obs >>

\* arg and ret while no routine is under study
Unused == [t |-> "unused"]

\* last before the first tick.  runStart is the time of the first tick of
\* the current run of consecutive IN_CALL ticks (0 outside such a run), and
\* status the callStatus the tick found.
NoTick ==
  [outcome |-> "none", d |-> 0, read |-> Null, prev |-> "IDLE", start |-> Null,
   status |-> Null, t1 |-> 0, t2 |-> 0, runStart |-> 0]

\* http before the first request.  n counts the requests, seen is the
\* callStatus the handler found, started the device function it called and
\* pending tells whether a dial had been accepted with no IDLE tick since.
NoRequest ==
  [n |-> 0, endpoint |-> "none", phoneNumber |-> Undefined, seen |-> Null,
   status |-> 0, raised |-> FALSE, started |-> "none", pending |-> FALSE]

\* obs at start.  published lists the ticks that updated callStatus, in the
\* order they did it; before is the carried state the latest of them
\* overwrote; dialed holds from an accepted /api/startcall to the next tick
\* that reports IDLE; ticks counts the poll ticks started, failures the adb
\* operations that failed, and settled is the latest poll tick that returned
\* or call that threw.
NoObs ==
  [published |-> << >>, before |-> [prev |-> "IDLE", start |-> Null], dialed |-> FALSE,
   ticks |-> 0, failures |-> 0, settled |-> Null]

\* src/unnamed/part_000:13, src/script.js:206; no call in flight, no request
DeviceInit ==
  /\ deviceId = Null
  /\ tasks = {}
  /\ http = NoRequest
  /\ obs = NoObs

PollerInit ==
  /\ running = TRUE
  /\ prevPhoneState = "IDLE"
  /\ inCallStartTime = Null
  /\ callStatus = Null
  /\ now = ClockStart
  /\ last = NoTick

Init ==
  /\ prog \in Programs
  /\ PollerInit
  /\ DeviceInit
  /\ arg = Unused
  /\ ret = Unused

\* The setInterval callback from the line after the fetch to its end, on
\* dump number d classified as c, at time t1 with the duration read at t2;
\* carried is what the callback reads of prevPhoneState and inCallStartTime.
TickUpdate(c, d, t1, t2, carried) ==
  LET start == TimerAfter(prog, c.phoneState, carried.prev, carried.start, t1)
  IN  /\ running
      /\ now' = t1
      /\ last' = [outcome |-> IF c.threw THEN "threw" ELSE "ok", d |-> d, read |-> c,
                  prev |-> carried.prev, start |-> carried.start,
                  status |-> callStatus, t1 |-> t1, t2 |-> t2,
                  runStart |-> IF c.phoneState # "IN_CALL" THEN 0
                               ELSE IF carried.prev = "IN_CALL" THEN last.runStart
                               ELSE t1]
      /\ IF c.threw
         THEN /\ running' = FALSE
              /\ UNCHANGED << prevPhoneState, inCallStartTime, callStatus >>
         ELSE /\ inCallStartTime' = start
              /\ callStatus' = [t |-> "status", phoneState |-> c.phoneState,
                                direction |-> c.direction, callerID |-> c.callerID,
                                duration |-> FormatDuration(start, t2)]
              /\ prevPhoneState' = c.phoneState
              /\ UNCHANGED running
      /\ UNCHANGED << prog, arg, ret >>

\* The setInterval callback on dump number d, fetched without error and
\* classified as c, at time t1 with the duration read at t2.
PollTick(c, d, t1, t2) ==
  TickUpdate(c, d, t1, t2, [prev |-> prevPhoneState, start |-> inCallStartTime])

Tick(p) ==
  /\ prog = p
  /\ \E d \in 1..Len(PollDumps), adv \in Advances, j \in 0..MaxJitter :
       /\ now + adv + j <= MaxNow
       /\ PollTick(ClassifyTable[prog][d], d, now + adv, now + adv + j)
  /\ UNCHANGED deviceVars

\* src/script.js:144-199
TickCli1 == Tick("cli1")
\* src/script.js:365-417
TickCli2 == Tick("cli2")
\* src/unnamed/part_000:301-352
TickServer == Tick("server")

Next == TickCli1 \/ TickCli2 \/ TickServer

Spec == Init /\ [][Next]_vars

-----------------------------------------------------------------------------
(* Properties of the poller, checked under Spec.                            *)

\* the latest tick ran to its end
TickDone == last.outcome = "ok"

\* the dump the latest tick fetched
LastDump == PollDumps[last.d]

\* str.includes(tok)
Includes(s, tok) == IndexOf(s, tok, 0) # -1

\* the priority table as the claim words it
ClaimedPhoneState(hasCall, direction, rawState) ==
  CASE ~hasCall -> "IDLE"
    [] hasCall /\ rawState = "RINGING" -> "RINGING"
    [] hasCall /\ rawState # "RINGING" /\ rawState = "DIALING" -> "DIALING"
    [] hasCall /\ rawState = "" /\ direction = Str("OUTGOING") -> "DIALING"
    [] OTHER -> "IN_CALL"

\* C1: on every completed tick phoneState is the priority function of that
\* tick's currentCallId, direction and rawState alone: no call -> IDLE, else
\* RINGING, else DIALING, else OUTGOING with empty rawState -> DIALING, else
\* IN_CALL, whatever previousPhoneState and the timer were.
C1_PhoneStateByPriority ==
  TickDone =>
    callStatus.phoneState =
      ClaimedPhoneState(Truthy(last.read.currCall), last.read.direction, last.read.rawState)

\* an OUTGOING call with the non-empty raw state ACTIVE, met after a DIALING
\* tick with the timer not running, is IN_CALL
C1_Witness ==
  /\ TickDone
  /\ last.read.direction = Str("OUTGOING")
  /\ last.read.rawState = "ACTIVE"
  /\ last.prev = "DIALING"
  /\ last.start = Null
  /\ callStatus.phoneState = "IN_CALL"

\* the snapshot of a tick that found no call
IdleSnapshot ==
  [t |-> "status", phoneState |-> "IDLE", direction |-> Str(""), callerID |-> Str(""),
   duration |-> "00:00:00"]

\* C2: every tick that finds no active call id leaves inCallStartTimestamp
\* null and produces {IDLE, "", "", "00:00:00"}, whatever the earlier ticks
\* were.
C2_IdleTickClearsTimer ==
  (TickDone /\ ~Truthy(last.read.currCall)) =>
    (inCallStartTime = Null /\ callStatus = IdleSnapshot)

\* the tick enters IN_CALL
EntersInCall == TickDone /\ callStatus.phoneState = "IN_CALL" /\ last.prev # "IN_CALL"

\* C3: the timer starts exactly on entry to IN_CALL: a tick that is IN_CALL
\* after a tick that was not sets inCallStartTimestamp to the current time
\* and reports "00:00:00", no other tick sets it, and every completed tick
\* leaves previousPhoneState equal to its phoneState.
C3_TimerStartsOnEntry ==
  TickDone =>
    /\ prevPhoneState = callStatus.phoneState
    /\ EntersInCall => (inCallStartTime = Num(last.t1) /\ callStatus.duration = "00:00:00")
    /\ ~EntersInCall => inCallStartTime \in {last.start, Null}

\* IN_CALL entered again from RINGING, with no IDLE tick since the earlier
\* call: the timer restarts at the time of this tick
C3_Witness ==
  /\ EntersInCall
  /\ last.prev = "RINGING"
  /\ last.status.duration # "00:00:00"
  /\ inCallStartTime = Num(last.t1)
  /\ callStatus.duration = "00:00:00"

\* the tick is IN_CALL after a tick that was IN_CALL
SustainedCall == TickDone /\ callStatus.phoneState = "IN_CALL" /\ last.prev = "IN_CALL"

\* two decimal digits of n < 100
TwoDigits(n) == CharAt(Digits, n \div 10) \o CharAt(Digits, n % 10)

\* HH:MM:SS of a number of whole seconds below 100 hours
ClockString(secs) ==
  TwoDigits(secs \div 3600) \o ":" \o TwoDigits((secs \div 60) % 60) \o ":"
    \o TwoDigits(secs % 60)

\* the number of seconds an HH:MM:SS string stands for
SecondsOf(hms) ==
  DigitsValue(Slice(hms, 0, 2), 0, 0) * 3600 + DigitsValue(Slice(hms, 3, 5), 0, 0) * 60
    + DigitsValue(Slice(hms, 6, 8), 0, 0)

\* C4: on a tick that is IN_CALL after an IN_CALL tick the timer is left
\* unchanged, the duration is the whole seconds elapsed since the first
\* IN_CALL tick of the run, and it is not less than the duration the
\* previous tick reported.
C4_SustainedCallKeepsTimer ==
  SustainedCall =>
    /\ inCallStartTime = last.start
    /\ inCallStartTime = Num(last.runStart)
    /\ callStatus.duration = ClockString((last.t2 - last.runStart) \div 1000)
    /\ SecondsOf(callStatus.duration) >= SecondsOf(last.status.duration)

\* the tick 5 seconds after the tick that started the timer reports 00:00:05
C4_Witness ==
  /\ SustainedCall
  /\ last.t2 - last.runStart = 5000
  /\ last.status.duration = "00:00:00"
  /\ callStatus.duration = "00:00:05"

\* the three fragments scenario B quotes
HoldsScenarioB(dump) ==
  /\ Includes(dump, "All calls: TC@1")
  /\ Includes(dump, "Call id=TC@1, state=RINGING,")
  /\ Includes(dump, "Call TC@1: { direction: INCOMING }")

\* the same three facts in the layout the parser reads: TC@1 on the line
\* under the nested "All calls:" header, the state field, and the analytics
\* block with direction on a line of its own between the braces
HoldsScenarioBNested(dump) ==
  /\ IndexOf(dump, CallsHeader \o CallItem("TC@1"), 0) = 0
  /\ Includes(dump, "Call id=TC@1, state=RINGING,")
  /\ IndexOf(dump, "Call id=TC@1, state=", 0) = IndexOf(dump, "Call id=TC@1, state=RINGING,", 0)
  /\ Includes(dump, AnalyticsEntry("TC@1", "INCOMING"))
  /\ IndexOf(dump, "Call TC@1:", 0) = IndexOf(dump, AnalyticsEntry("TC@1", "INCOMING"), 0)

RingingIncoming ==
  callStatus.phoneState = "RINGING" /\ callStatus.direction = Str("INCOMING")

PhoneStates == {"IDLE", "RINGING", "DIALING", "IN_CALL"}

\* two digits, a colon, two digits, a colon, two digits
IsClockString(str) ==
  /\ Len(str) = 8
  /\ \A k \in {0, 1, 3, 4, 6, 7} : IsDigit(CharAt(str, k))
  /\ CharAt(str, 2) = ":" /\ CharAt(str, 5) = ":"

\* C6: for every dump, well-formed or not, the tick raises no exception and
\* produces a CallStatus whose phoneState is one of the four names, whose
\* direction and callerID are strings and whose duration is HH:MM:SS.
C6_TickNeverRaises ==
  /\ last.outcome # "threw"
  /\ TickDone =>
       /\ callStatus.phoneState \in PhoneStates
       /\ callStatus.direction.t = "string"
       /\ callStatus.callerID.t = "string"
       /\ IsClockString(callStatus.duration)

-----------------------------------------------------------------------------
(* The extraction routines and addField on their own: arg is drawn from a   *)
(* bounded set of arguments, one step applies the routine and keeps what it *)
(* returned in ret.                                                         *)

\* the greatest number of pieces of a dump given to extractAnalytics, of
\* lines under "All calls:", of call records, and of addField calls
MaxPieces == 4
MaxItems  == 3
MaxCalls  == 3
MaxAdds   == 3

RECURSIVE Concat(_)
Concat(ps) == IF ps = << >> THEN "" ELSE Head(ps) \o Concat(Tail(ps))

\* the sequences of at most n indices into the tuple pieces
IndexSeqs(pieces, n) == UNION {[1..m -> 1..Len(pieces)] : m \in 0..n}

\* the strings of the pieces that the index sequence ks names
Pick(pieces, ks) == [i \in 1..Len(ks) |-> pieces[ks[i]]]

\* what the text after (and before) the start token is made of
BracePieces == << "Call TC@1:", " {", " }", "\n  direction: INCOMING\n", " x" >>

ExtractArgs ==
  {[fn |-> "extractAnalytics", dump |-> Concat(Pick(BracePieces, ks)), callId |-> "TC@1"] :
     ks \in IndexSeqs(BracePieces, MaxPieces)}

\* the header lines: the whole path, and the path with one step missing
PathHeaders ==
  << CallsHeader,
     "Telecom:\n  mCallAudioManager:\n    All calls:\n",
     "CallsManager:\n  mCallsManager:\n    All calls:\n",
     "CallsManager:\n  mCallAudioManager:\n    Ringing calls:\n" >>

\* the lines under the last header line: two call ids, a field, a blank line
ListedIds == << "TC@1", "TC@2" >>
ItemPieces == << CallItem(ListedIds[1]), CallItem(ListedIds[2]), "      a: 1\n", "      \n" >>

LocateArgs ==
  {[fn |-> "getAllCalls", header |-> h, items |-> ks] :
     h \in 1..Len(PathHeaders), ks \in IndexSeqs(ItemPieces, MaxItems)}

LocateDump(a) == PathHeaders[a.header] \o Concat(Pick(ItemPieces, a.items))

\* the records of a dump that logs several calls, with or without a handle
RecordIds == {"TC@5", "TC@56", "TC@7"}
Tels == {"", "+111", "+222"}
CallRecords == {[id |-> id, tel |-> tel] : id \in RecordIds, tel \in Tels}

RecordLine(r) ==
  "  Call" \o r.id \o " created"
    \o (IF r.tel = "" THEN "" ELSE ", " \o handleToken \o r.tel \o ", x)") \o "\n"

RECURSIVE RecordLines(_)
RecordLines(rs) == IF rs = << >> THEN "" ELSE RecordLine(Head(rs)) \o RecordLines(Tail(rs))

CallerArgs ==
  {[fn |-> "getCallerNumber", records |-> rs, callId |-> id] :
     rs \in UNION {[1..m -> CallRecords] : m \in 0..MaxCalls}, id \in RecordIds}

\* the keys and values addField is called with: a plain key, the key of the
\* bare lines, a key Object.prototype also has; a string, a number, null
\* and a nested block (object 2 of the heap)
AddKeys == {"a", "_items", "constructor"}
AddVals == {Str("x"), Str("y"), Num(1), Null, Ref(2)}

\* the start timestamps (null: none set) and the elapsed times, in
\* milliseconds, the duration is formatted for: around a second, a minute,
\* an hour, a day and a hundred hours
StartTimes == {Null, Num(0), Num(1), Num(1000), Num(86399999)}
ElapsedTimes ==
  {0, 999, 1000, 59999, 60000, 3599999, 3600000, 3661001, 86399999, 86400000,
   90061000, 360000000}

DurationArgs ==
  {[fn |-> "duration", start |-> st, elapsed |-> el] : st \in StartTimes, el \in ElapsedTimes}

RoutineArgs ==
  ExtractArgs \cup LocateArgs \cup CallerArgs \cup DurationArgs
    \cup {[fn |-> "addField", adds |-> << >>]}

InitRoutines ==
  /\ prog \in Programs
  /\ PollerInit
  /\ DeviceInit
  /\ arg \in RoutineArgs
  /\ ret = IF arg.fn = "addField" THEN << EmptyObject, EmptyObject >> ELSE Unused

\* src/script.js:97-107, src/script.js:317-327, src/unnamed/part_000:204-214
RunExtractAnalytics ==
  /\ arg.fn = "extractAnalytics"
  /\ ret = Unused
  /\ ret' = extractAnalytics(arg.dump, Str(arg.callId), << >>)
  /\ UNCHANGED << pollerVars, deviceVars, arg >>

\* src/script.js:82-92, src/script.js:302-312, src/unnamed/part_000:189-199
RunGetAllCalls ==
  /\ arg.fn = "getAllCalls"
  /\ ret = Unused
  /\ ret' = getAllCalls(prog, LocateDump(arg))
  /\ UNCHANGED << pollerVars, deviceVars, arg >>

\* src/script.js:112-123, src/script.js:332-344, src/unnamed/part_000:219-231
RunGetCallerNumber ==
  /\ arg.fn = "getCallerNumber"
  /\ ret = Unused
  /\ ret' = getCallerNumber(RecordLines(arg.records), Str(arg.callId), << >>)
  /\ UNCHANGED << pollerVars, deviceVars, arg >>

\* src/script.js:53-57: one more call addField(obj, key, val) on the
\* container obj, object 1 of the heap ret
RunAddField ==
  /\ arg.fn = "addField"
  /\ Len(arg.adds) < MaxAdds
  /\ \E key \in AddKeys, val \in AddVals :
       /\ arg' = [arg EXCEPT !.adds = Append(@, [key |-> key, val |-> val])]
       /\ ret' = addField(ret, 1, key, val)
  /\ UNCHANGED << pollerVars, deviceVars >>

\* src/script.js:176-186, src/script.js:396-406, src/unnamed/part_000:332-342:
\* the duration of a tick that reads the clock arg.elapsed ms after the start
RunFormatDuration ==
  /\ arg.fn = "duration"
  /\ ret = Unused
  /\ ret' = Str(FormatDuration(arg.start,
                               IF arg.start = Null THEN arg.elapsed
                               ELSE arg.start.v + arg.elapsed))
  /\ UNCHANGED << pollerVars, deviceVars, arg >>

NextRoutines ==
  \/ RunExtractAnalytics
  \/ RunGetAllCalls
  \/ RunGetCallerNumber
  \/ RunAddField
  \/ RunFormatDuration

SpecRoutines == InitRoutines /\ [][NextRoutines]_vars

-----------------------------------------------------------------------------
(* Properties of the routines, checked under SpecRoutines.                  *)

\* the result is the empty mapping
IsEmptyMapping(r) == ~r.threw /\ r.val.t = "object" /\ DOMAIN r.heap[r.val.v] = {}

\* the number of positions of s in from..to that hold the character c
CountIn(s, c, from, to) == Cardinality({k \in from..to : CharAt(s, k) = c})

\* the brace opened at position p of s is closed before the end of s
Closed(s, p) ==
  \E q \in (p + 1)..(Len(s) - 1) : CountIn(s, "{", p, q) = CountIn(s, "}", p, q)

\* the start token is in dump and the first brace opened after it is not closed
Unterminated(dump, startToken) ==
  LET idx == IndexOf(dump, startToken, 0)
      p   == IndexOf(dump, "{", idx + Len(startToken))
  IN  idx # -1 /\ p # -1 /\ ~Closed(dump, p)

\* C7: extractAnalytics returns the empty mapping, and does not raise, when
\* the start token is absent and when the first brace opened after it is
\* never closed, a balanced inner pair included.
C7_UnterminatedGivesEmpty ==
  (arg.fn = "extractAnalytics" /\ ret # Unused) =>
    LET startToken == "Call " \o arg.callId \o ":"
    IN  (~Includes(arg.dump, startToken) \/ Unterminated(arg.dump, startToken))
          => IsEmptyMapping(ret)

\* the bare lines among the lines ks under the last header
BareItems(ks) == SelectSeq(ks, LAMBDA k : k <= Len(ListedIds))

\* C8: getAllCalls returns null when a step of the path is absent or the
\* final node has no _items entry, and otherwise the first _items entry in
\* input order.
C8_FirstItemOrNull ==
  (arg.fn = "getAllCalls" /\ ret # Unused) =>
    ret = IF arg.header # 1 \/ BareItems(arg.items) = << >> THEN Null
          ELSE Str(ListedIds[BareItems(arg.items)[1]])

\* the values the calls made so far gave the key
ValuesOf(adds, key) ==
  LET hits == SelectSeq(adds, LAMBDA e : e.key = key)
  IN  [i \in 1..Len(hits) |-> hits[i].val]

\* C9: a key given N > 1 values holds the sequence of them in input order,
\* a key given one value holds that value itself.
C9_Accumulation ==
  arg.fn = "addField" =>
    \A key \in {arg.adds[i].key : i \in 1..Len(arg.adds)} :
      /\ key \in DOMAIN ret[1]
      /\ ret[1][key] = IF Len(ValuesOf(arg.adds, key)) = 1 THEN ValuesOf(arg.adds, key)[1]
                       ELSE Arr(ValuesOf(arg.adds, key))

\* the records are of different calls
DistinctCalls(rs) == \A i, j \in 1..Len(rs) : rs[i].id = rs[j].id => i = j

\* the number recorded for the call id, "" when it has no record or no handle
RecordedTel(rs, id) ==
  IF \E i \in 1..Len(rs) : rs[i].id = id
  THEN rs[CHOOSE i \in 1..Len(rs) : rs[i].id = id].tel
  ELSE ""

\* C10: getCallerNumber returns the number of the CALL_HANDLE recorded for
\* exactly the call callId, and "" when that call has none, in a dump that
\* records several calls.
C10_NumberOfThatCall ==
  (arg.fn = "getCallerNumber" /\ ret # Unused /\ DistinctCalls(arg.records)) =>
    ret = Str(RecordedTel(arg.records, arg.callId))

\* n in decimal, with a leading zero below ten
AtLeastTwoDigits(n) == IF n < 10 THEN "0" \o IntToString(n) ELSE IntToString(n)

\* the elapsed time ms as the claim formats it: whole hours, then minutes
\* and seconds within 00..59
ElapsedClock(ms) ==
  AtLeastTwoDigits(ms \div 3600000) \o ":" \o TwoDigits((ms \div 60000) % 60) \o ":"
    \o TwoDigits((ms \div 1000) % 60)

\* C11: the duration is "00:00:00" when no start timestamp is set, and for
\* every start timestamp, 0 included, the elapsed time as HH:MM:SS with
\* minutes and seconds in 00..59 and the hours not wrapped at 24.
C11_DurationFormat ==
  (arg.fn = "duration" /\ ret # Unused) =>
    ret = Str(IF arg.start = Null THEN "00:00:00" ELSE ElapsedClock(arg.elapsed))

-----------------------------------------------------------------------------
(* parseDump line by line (src/script.js:8-47, src/script.js:247-285,       *)
(* src/unnamed/part_000:134-172): ret is the parser state, arg the input    *)
(* and the position of the for loop.                                        *)

MaxLines == 4

\* the lines the inputs are made of: block-opening and null `key:` lines,
\* the same key at two indentations, a scalar field, a bare line, a bare
\* line that holds a colon, and a line of white space
LinePieces == << "a:", "  a:", "  x: 1", "    y", "  ", "b: 1", ":z" >>

\* every line of the input ends with a line feed
Terminated(ls) == [i \in 1..Len(ls) |-> ls[i] \o "\n"]

ParseArgs ==
  {[fn |-> "parseDump", input |-> Concat(Terminated(Pick(LinePieces, ks))), i |-> 0,
    visited |-> << >>, opened |-> << >>, before |-> ParseInit, returned |-> FALSE] :
     ks \in IndexSeqs(LinePieces, MaxLines)}

InitParse ==
  /\ prog = "server"
  /\ PollerInit
  /\ DeviceInit
  /\ arg \in ParseArgs
  /\ ret = ParseInit

\* One iteration of `for (const raw of lines)`. arg.visited lists the lines
\* visited so far, arg.before is the parser state the iteration started
\* from, and arg.opened lists the lines that pushed a frame, with the
\* container they created.
ParseStep ==
  /\ arg.fn = "parseDump"
  /\ arg.i < Len(SplitLines(arg.input))
  /\ ret' = ParseLine(ret, SplitLines(arg.input), arg.i)
  /\ arg' = [arg EXCEPT
       !.i = @ + 1,
       !.visited = Append(@, arg.i),
       !.before = ret,
       !.opened =
         IF Len(ret'.heap) > Len(ret.heap)
         THEN Append(@, [line |-> arg.i,
                         indent |-> SearchNonWs(SplitLines(arg.input)[arg.i + 1]),
                         container |-> Len(ret'.heap)])
         ELSE @]
  /\ UNCHANGED << pollerVars, deviceVars >>

\* `return root` after the loop
ParseReturn ==
  /\ arg.fn = "parseDump"
  /\ ~arg.returned
  /\ arg.i >= Len(SplitLines(arg.input))
  /\ arg' = [arg EXCEPT !.returned = TRUE]
  /\ UNCHANGED << pollerVars, deviceVars, ret >>

NextParse == ParseStep \/ ParseReturn

SpecParse == InitParse /\ [][NextParse]_vars

-----------------------------------------------------------------------------
(* Properties of parseDump, checked under SpecParse.                        *)

\* the lines of the input, and the line the last iteration visited
InputLines == SplitLines(arg.input)
LastLine == InputLines[arg.i]
Stepped == arg.fn = "parseDump" /\ arg.i > 0

\* a line is blank when it holds white space only
IsBlank(line) == \A k \in 0..(Len(line) - 1) : CharAt(line, k) \in WhiteSpace

\* the number of white-space characters a line starts with
Indentation(line) == MinOf({k \in 0..(Len(line) - 1) : CharAt(line, k) \notin WhiteSpace})

\* the text of a line has the form `key: value` or `key:` when a non-empty
\* key comes before its first colon
IsKeyed(line) ==
  \E c \in 0..(Len(line) - 1) :
     /\ CharAt(line, c) = ":"
     /\ \A k \in 0..(c - 1) : CharAt(line, k) # ":"
     /\ \E k \in 0..(c - 1) : CharAt(line, k) \notin WhiteSpace

\* a `key:` line: nothing but white space follows the first colon
IsHeader(line) ==
  /\ IsKeyed(line)
  /\ \A k \in 0..(Len(line) - 1) :
       (\E c \in 0..(k - 1) : CharAt(line, c) = ":") => CharAt(line, k) \in WhiteSpace

\* the values accumulated under key in object id of heap h, in order
ValuesUnder(h, id, key) ==
  IF key \notin DOMAIN h[id] THEN << >>
  ELSE IF h[id][key].t = "array" THEN h[id][key].v
  ELSE << h[id][key] >>

\* the objects of the heap the last iteration changed
Changed == {id \in 1..Len(arg.before.heap) : ret.heap[id] # arg.before.heap[id]}

\* the last iteration left every object as it was, but for one more value
\* val under key of the container id
AddedOnly(id, key, val) ==
  /\ \A o \in 1..Len(arg.before.heap) :
       \A k \in (DOMAIN arg.before.heap[o] \cup DOMAIN ret.heap[o]) \ (IF o = id THEN {key} ELSE {}) :
          /\ k \in DOMAIN arg.before.heap[o]
          /\ k \in DOMAIN ret.heap[o]
          /\ ret.heap[o][k] = arg.before.heap[o][k]
  /\ ValuesUnder(ret.heap, id, key) = Append(ValuesUnder(arg.before.heap, id, key), val)

\* the container on top of the frame stack
CurrentParent == ret.stack[Len(ret.stack)].container

\* C13: parseDump visits each line once, in order, and returns when it has
\* visited the last one, so that the lines left to visit bound its steps; a
\* blank line adds nothing, and a non-blank line that is neither
\* `key: value` nor `key:` adds its trimmed text under _items of the current
\* parent.
C13_ParseDumpTerminates ==
  arg.fn = "parseDump" =>
    /\ arg.visited = [k \in 1..arg.i |-> k - 1]
    /\ arg.i <= Len(InputLines)
    /\ arg.returned => arg.i = Len(InputLines)
    /\ (arg.i > 0 /\ IsBlank(LastLine)) => ret = arg.before
    /\ (arg.i > 0 /\ ~IsBlank(LastLine) /\ ~IsKeyed(LastLine)) =>
         /\ ret.stack = PopFrames(arg.before.stack, Indentation(LastLine))
         /\ Len(ret.heap) = Len(arg.before.heap)
         /\ AddedOnly(CurrentParent, "_items", Str(Trim(LastLine)))

\* a bare line with a colon was accumulated next to an earlier bare line
C13_Witness ==
  /\ arg.fn = "parseDump" /\ arg.returned
  /\ "_items" \in DOMAIN ret.heap[1]
  /\ ret.heap[1]["_items"] = Arr(<< Str("y"), Str(":z") >>)

\* the key of a `key:` line: its text up to the first colon
HeaderKey(line) ==
  Slice(line, Indentation(line), MinOf({c \in 0..(Len(line) - 1) : CharAt(line, c) = ":"}))

\* the positions (from 1) of the non-blank lines after the line just visited
Following == {k \in (arg.i + 1)..Len(InputLines) : ~IsBlank(InputLines[k])}

\* the first non-blank line after the line just visited is indented deeper
FollowedByDeeper ==
  /\ Following # {}
  /\ Indentation(InputLines[MinOf(Following)]) > Indentation(LastLine)

\* the last iteration opened a block: a new empty node under the key of the
\* line, in the parent, and a frame for it on the stack
OpenedBlock ==
  /\ Len(ret.heap) = Len(arg.before.heap) + 1
  /\ ret.heap[Len(ret.heap)] = EmptyObject
  /\ Len(ret.stack) > 1
  /\ ret.stack[Len(ret.stack)] =
       [indent |-> Indentation(LastLine), container |-> Len(ret.heap)]
  /\ AddedOnly(ret.stack[Len(ret.stack) - 1].container, HeaderKey(LastLine),
               Ref(Len(ret.heap)))

\* the last iteration stored null under the key of the line
StoredNull ==
  /\ Len(ret.heap) = Len(arg.before.heap)
  /\ AddedOnly(CurrentParent, HeaderKey(LastLine), Null)

\* C15: a `key:` line opens a nested block when the first non-blank line
\* after that very line is indented deeper, and stores null otherwise (end of
\* input included), also when an earlier line has the same text.
C15_LookaheadFromThatLine ==
  (Stepped /\ IsHeader(LastLine)) =>
    IF FollowedByDeeper THEN OpenedBlock ELSE StoredNull

\* the line just visited has the text of an earlier line
RepeatsEarlierLine == \E k \in 1..(arg.i - 1) : InputLines[k] = LastLine

\* the frames, bottom to top, have strictly increasing indentation above the
\* virtual root frame
FramesIncrease ==
  /\ ret.stack[1] = [indent |-> -1, container |-> 1]
  /\ \A k \in 1..(Len(ret.stack) - 1) : ret.stack[k].indent < ret.stack[k + 1].indent

\* the block opened by opened[k] is still open for the line just visited: it
\* was opened by an earlier line of smaller indentation, and no non-blank
\* line in between has an indentation smaller than or equal to that of the
\* opening line
OpenFor(k) ==
  /\ arg.opened[k].line < arg.i - 1
  /\ arg.opened[k].indent < Indentation(LastLine)
  /\ \A j \in (arg.opened[k].line + 2)..(arg.i - 1) :
       IsBlank(InputLines[j]) \/ Indentation(InputLines[j]) > arg.opened[k].indent

\* the container of the nearest block still open for the line just visited,
\* the root when there is none
EnclosingContainer ==
  IF \E k \in 1..Len(arg.opened) : OpenFor(k)
  THEN arg.opened[MaxOf({k \in 1..Len(arg.opened) : OpenFor(k)})].container
  ELSE 1

\* C16: the frame stack keeps the virtual root frame (indent -1) at the
\* bottom and strictly increasing indentation above it, and every non-blank
\* line is accumulated into the container of the nearest preceding
\* block-opening line of smaller indentation that no line in between has
\* closed, the root when there is none.
C16_FrameStack ==
  arg.fn = "parseDump" =>
    /\ FramesIncrease
    /\ (arg.i > 0 /\ ~IsBlank(LastLine)) => Changed = {EnclosingContainer}

\* a line went into a block two levels deep, and a later line back into the
\* root
C16_Witness ==
  /\ arg.fn = "parseDump" /\ arg.i = 4
  /\ Len(arg.opened) = 2
  /\ ~IsBlank(LastLine)
  /\ Changed = {1}
  /\ \E k \in DOMAIN ret.heap[3] : TRUE

-----------------------------------------------------------------------------
(* The asynchronous programs: the device functions with their one retry,    *)
(* overlapping poll ticks and the HTTP API.  An action is one turn of the   *)
(* event loop: a timer fires, a request arrives or an adb operation         *)
(* settles, and the code runs without interruption to its next await.       *)

\* the timer firings and HTTP requests of a run
MaxArrivals == 3

\* process.env.POLL_INTERVAL || 1000
PollInterval == 1000

AsyncPrograms == {"cli2", "server"}

\* devices[0].id
DeviceSerial == Str("emulator-5554")

\* the dumps `dumpsys telecom` answers with: no call, a ringing call, an
\* active call
ShellDumps ==
  {d \in 1..Len(PollDumps) : PollDumps[d] \in {DumpIdle, DumpRinging, DumpActiveIn}}

\* req.body.phoneNumber
PhoneNumbers == {Undefined, Str("0612345678")}

\* the call issues client.shell(deviceId, command), deviceId being serial,
\* and awaits it at pc; serials lists the device ids its shell commands
\* were issued with
IssueShell(task, pc, serial) ==
  [task EXCEPT !.pc = pc, !.shells = @ + 1, !.trace = Append(@, "shell"),
               !.serials = Append(@, serial)]

\* A call of getTelephoneDump ("tick"), callPhoneNumber ("dial"), endCall
\* ("end") or acceptCall ("accept"), up to its first await: initDevice when
\* deviceId is not set, the shell command otherwise.  id numbers the poll
\* ticks, and the calls made by the HTTP handlers, in the order they start;
\* held is the carried state at the time a poll tick starts.
CallId(kind) == IF kind = "tick" THEN obs.ticks + 1 ELSE http.n + 1
HeldBy(kind) ==
  IF kind = "tick" THEN [prev |-> prevPhoneState, start |-> inCallStartTime] ELSE Null

Begin(kind) ==
  IF Truthy(deviceId)
  THEN IssueShell([id |-> CallId(kind), kind |-> kind, pc |-> "", shells |-> 0,
                   trace |-> << >>, serials |-> << >>, held |-> HeldBy(kind)],
                  "shell1", deviceId)
  ELSE [id |-> CallId(kind), kind |-> kind, pc |-> "init", shells |-> 0,
        trace |-> << "init" >>, serials |-> << >>, held |-> HeldBy(kind)]

\* the catch block as if there were none: the first failure propagates
RetriesNever(task) == FALSE

\* the catch block that retries stands around the first shell command only
Retries(task) == task.pc = "shell1"

\* the carried state as if the tick read it before the await of the fetch
CarriedAtCall(task) == task.held

\* the carried state the tick classifies against: it reads prevPhoneState
\* and inCallStartTime after the await of the fetch
Carried(task) == [prev |-> prevPhoneState, start |-> inCallStartTime]

\* what is kept of the call as it settles with the event ev
Settled(task, pc, ev) ==
  [kind |-> task.kind, pc |-> pc, shells |-> task.shells,
   trace |-> Append(task.trace, ev), serials |-> task.serials]

\* one more adb operation may fail
MayFail == obs.failures + 1 < MaxArrivals

\* the call goes on after `await initDevice()`: it issues its shell command
\* with deviceId as it is then
Resumed(task, serial) ==
  IssueShell(task, IF task.pc = "init" THEN "shell1" ELSE "shell2", serial)

\* the catch block of the call: deviceId is reset and initDevice called
Caught(task) == [task EXCEPT !.pc = "reinit", !.trace = @ \o << "reset", "init" >>]

InitAsync ==
  /\ prog \in AsyncPrograms
  /\ PollerInit
  /\ DeviceInit
  /\ arg = Unused
  /\ ret = Unused

\* The timer fires: the callback calls getTelephoneDump, whether or not an
\* earlier tick is still waiting for its dump.
StartTick ==
  /\ running
  /\ obs.ticks + http.n < MaxArrivals
  /\ tasks' = tasks \cup {Begin("tick")}
  /\ obs' = [obs EXCEPT !.ticks = @ + 1]
  /\ UNCHANGED << pollerVars, arg, ret, deviceId, http >>

\* initDevice resolves for the call (the connection and the device list are
\* one adb operation here): it sets deviceId and returns, and the function
\* that awaits it goes on and issues its shell command.
InitOk(task) ==
  /\ running
  /\ task.pc \in {"init", "reinit"}
  /\ deviceId' = DeviceSerial
  /\ tasks' = (tasks \ {task}) \cup {Resumed(task, DeviceSerial)}
  /\ UNCHANGED << pollerVars, arg, ret, http, obs >>

\* initDevice resolves for the call in the turn of the event loop in which
\* the first shell command of another call is rejected.  The continuation
\* of initDevice runs first: it sets deviceId and returns, which queues the
\* continuation of the function that awaits it behind the catch block of
\* the other call.  That catch block resets deviceId and calls initDevice;
\* then the call goes on and issues its shell command.
InitOkWhileCaught(task, other) ==
  /\ running
  /\ task.pc \in {"init", "reinit"}
  /\ other # task
  /\ other.pc = "shell1"
  /\ Retries(other)
  /\ MayFail
  /\ deviceId' = Null
  /\ tasks' = (tasks \ {task, other}) \cup {Caught(other), Resumed(task, Null)}
  /\ obs' = [obs EXCEPT !.failures = @ + 1]
  /\ UNCHANGED << pollerVars, arg, ret, http >>

\* a catch block of the poll tick that would start the call tracking afresh
RejectAndReset(task) ==
  /\ tasks' = tasks \ {task}
  /\ obs' = [obs EXCEPT !.failures = @ + 1, !.settled = Settled(task, "failed", "throw")]
  /\ running' = (task.kind = "tick")
  /\ prevPhoneState' = "IDLE"
  /\ inCallStartTime' = Null
  /\ UNCHANGED << prog, callStatus, now, last >>

\* The call is rejected.  The poll tick
\* logs 'adb failed:' and returns; nobody awaits the promise of a call made
\* by an HTTP handler, and the unhandled rejection ends the process.
Reject(task) ==
  /\ tasks' = tasks \ {task}
  /\ obs' = [obs EXCEPT !.failures = @ + 1, !.settled = Settled(task, "failed", "throw")]
  /\ running' = (task.kind = "tick")
  /\ UNCHANGED << prog, prevPhoneState, inCallStartTime, callStatus, now, last >>

\* initDevice throws for the call (connection refused, no device listed):
\* neither call site catches it.
InitFail(task) ==
  /\ running
  /\ task.pc \in {"init", "reinit"}
  /\ MayFail
  /\ Reject(task)
  /\ UNCHANGED << arg, ret, deviceId, http >>

\* The shell command of the call fails: the catch block resets deviceId and
\* calls initDevice if it is the first command, the error propagates if it
\* is the second.
ShellFail(task) ==
  /\ running
  /\ task.pc \in {"shell1", "shell2"}
  /\ MayFail
  /\ IF Retries(task)
     THEN /\ deviceId' = Null
          /\ tasks' = (tasks \ {task}) \cup {Caught(task)}
          /\ obs' = [obs EXCEPT !.failures = @ + 1]
          /\ UNCHANGED pollerVars
     ELSE /\ Reject(task)
          /\ UNCHANGED deviceId
  /\ UNCHANGED << arg, ret, http >>

\* The shell command of the call succeeds, which takes the id of a device:
\* a poll tick goes on with the dump it returned, to the end of the
\* callback; the other functions log and return.
ShellOk(task) ==
  /\ running
  /\ task.pc \in {"shell1", "shell2"}
  /\ task.serials[Len(task.serials)] # Null
  /\ tasks' = tasks \ {task}
  /\ IF task.kind = "tick"
     THEN \E d \in ShellDumps :
            /\ TickUpdate(ClassifyTable[prog][d], d, now + PollInterval,
                          now + PollInterval, Carried(task))
            /\ obs' = [obs EXCEPT
                 !.published = Append(@, task.id),
                 !.before = [prev |-> prevPhoneState, start |-> inCallStartTime],
                 !.dialed = @ /\ ClassifyTable[prog][d].phoneState # "IDLE",
                 !.settled = Settled(task, "done", "return")]
     ELSE UNCHANGED << pollerVars, arg, ret, obs >>
  /\ UNCHANGED << deviceId, http >>

\* what the handler of endpoint answers, having found callStatus as it is
Respond(endpoint, phoneNumber, status, started) ==
  [n |-> http.n + 1, endpoint |-> endpoint, phoneNumber |-> phoneNumber,
   seen |-> callStatus, status |-> status, raised |-> FALSE, started |-> started,
   pending |-> obs.dialed]

\* the handler throws a TypeError: Express answers 500
Raise(endpoint) ==
  [n |-> http.n + 1, endpoint |-> endpoint, phoneNumber |-> Undefined,
   seen |-> callStatus, status |-> 500, raised |-> TRUE, started |-> "none",
   pending |-> obs.dialed]

\* a request can be handled
Serving == prog = "server" /\ running /\ obs.ticks + http.n < MaxArrivals

\* the handler answers 200 after calling the device function kind, which is
\* not awaited
Accept(endpoint, phoneNumber, kind) ==
  /\ http' = Respond(endpoint, phoneNumber, 200, kind)
  /\ tasks' = tasks \cup {Begin(kind)}

\* the handler answers 400 and calls nothing
Refuse(endpoint, phoneNumber) ==
  /\ http' = Respond(endpoint, phoneNumber, 400, "none")
  /\ UNCHANGED tasks

\* src/unnamed/part_000:248-258
HttpStartCall ==
  /\ Serving
  /\ \E phoneNumber \in PhoneNumbers :
       IF ~Truthy(phoneNumber) THEN
         /\ Refuse("startcall", phoneNumber)
         /\ UNCHANGED obs
       ELSE IF callStatus # Null /\ callStatus.phoneState # "IDLE" THEN
         /\ Refuse("startcall", phoneNumber)
         /\ UNCHANGED obs
       ELSE
         /\ Accept("startcall", phoneNumber, "dial")
         /\ obs' = [obs EXCEPT !.dialed = TRUE]
  /\ UNCHANGED << pollerVars, arg, ret, deviceId >>

\* src/unnamed/part_000:260-269
HttpStopCall ==
  /\ Serving
  /\ IF callStatus = Null THEN
       /\ http' = Raise("stopcall")
       /\ UNCHANGED tasks
     ELSE IF ~Truthy(callStatus.callerID) \/ callStatus.phoneState = "IDLE" THEN
       Refuse("stopcall", Undefined)
     ELSE
       Accept("stopcall", Undefined, "end")
  /\ UNCHANGED << pollerVars, arg, ret, deviceId, obs >>

\* src/unnamed/part_000:271-277
HttpRejectCall ==
  /\ Serving
  /\ IF callStatus = Null THEN
       /\ http' = Raise("rejectcall")
       /\ UNCHANGED tasks
     ELSE IF ~Truthy(callStatus.callerID) \/ callStatus.phoneState # "RINGING" THEN
       Refuse("rejectcall", Undefined)
     ELSE
       Accept("rejectcall", Undefined, "end")
  /\ UNCHANGED << pollerVars, arg, ret, deviceId, obs >>

\* src/unnamed/part_000:279-286
HttpAcceptCall ==
  /\ Serving
  /\ IF callStatus = Null \/ callStatus.phoneState # "RINGING" THEN
       Refuse("acceptcall", Undefined)
     ELSE
       Accept("acceptcall", Undefined, "accept")
  /\ UNCHANGED << pollerVars, arg, ret, deviceId, obs >>

\* src/unnamed/part_000:288-290
HttpGetCallStatus ==
  /\ Serving
  /\ http' = Respond("getcallstatus", Undefined, 200, "none")
  /\ UNCHANGED << pollerVars, arg, ret, deviceId, tasks, obs >>

NextAsync ==
  \/ StartTick
  \/ \E task \in tasks : InitOk(task)
  \/ \E task \in tasks : InitFail(task)
  \/ \E task, other \in tasks : InitOkWhileCaught(task, other)
  \/ \E task \in tasks : ShellOk(task)
  \/ \E task \in tasks : ShellFail(task)
  \/ HttpStartCall
  \/ HttpStopCall
  \/ HttpRejectCall
  \/ HttpAcceptCall
  \/ HttpGetCallStatus

SpecAsync == InitAsync /\ [][NextAsync]_vars

-----------------------------------------------------------------------------
(* Properties of the asynchronous programs, checked under SpecAsync.        *)

\* a tick has updated the snapshot
Published == prog \in AsyncPrograms /\ obs.published # << >> /\ last.outcome = "ok"

\* the timer a tick leaves, from the phone state it found and the carried
\* state it overwrote
TimerFrom(phoneState, before, t) ==
  IF phoneState = "IDLE" THEN Null
  ELSE IF phoneState = "IN_CALL" /\ before.prev # "IN_CALL" THEN Num(t)
  ELSE before.start

\* C12: a tick reads prevPhoneState and writes inCallStartTime, callStatus
\* and prevPhoneState in one step, also when ticks overlap and requests are
\* served: the carried state it read is the one it overwrote, and the three
\* variables always come from the same tick.
C12_TickAtomic ==
  Published =>
    /\ last.prev = obs.before.prev
    /\ last.start = obs.before.start
    /\ prevPhoneState = last.read.phoneState
    /\ callStatus.phoneState = last.read.phoneState
    /\ inCallStartTime = TimerFrom(last.read.phoneState, obs.before, last.t1)

\* two ticks overlapped, the one started second finished first, a request
\* was served, and the later of the two found the call already in progress
C12_Witness ==
  /\ Published
  /\ Len(obs.published) = 2
  /\ obs.published[1] > obs.published[2]
  /\ http.n > 0
  /\ last.read.phoneState = "IN_CALL"
  /\ last.prev = "IN_CALL"

\* the calls of getTelephoneDump: those in flight and the latest settled
DumpCalls ==
  {task \in tasks : task.kind = "tick"}
    \cup (IF obs.settled # Null /\ obs.settled.kind = "tick" THEN {obs.settled} ELSE {})

\* what a call may do once the device is known: one shell command that
\* succeeds, or one that fails, followed by the reset of deviceId, the
\* re-initialisation and, if that succeeds, exactly one more shell command
RetryOnce ==
  { << "shell", "return" >>,
    << "shell", "reset", "init", "throw" >>,
    << "shell", "reset", "init", "shell", "return" >>,
    << "shell", "reset", "init", "shell", "throw" >> }

\* the same after the initialisation of a device not yet known, which may
\* itself fail
WholeCalls ==
  RetryOnce \cup {<< "init" >> \o tr : tr \in RetryOnce} \cup {<< "init", "throw" >>}

IsPrefix(pre, tr) == Len(pre) <= Len(tr) /\ SubSeq(tr, 1, Len(pre)) = pre

\* the shell commands in a trace
ShellsIn(tr) == Cardinality({i \in 1..Len(tr) : tr[i] = "shell"})

\* C14: a call of getTelephoneDump retries once: after a failed first shell
\* command deviceId is reset, the device re-initialised and the command
\* issued exactly once more; a failed re-initialisation or second command
\* propagates; the call issues at most two shell commands.
C14_RetriesOnce ==
  prog \in AsyncPrograms =>
    \A call \in DumpCalls :
       /\ \E tr \in WholeCalls : IsPrefix(call.trace, tr)
       /\ call.pc \in {"done", "failed"} => call.trace \in WholeCalls
       /\ call.shells = ShellsIn(call.trace)
       /\ call.shells <= 2
       /\ call.pc = "reinit" => call.shells = 1

\* a poll tick gave up after its second shell command failed
C14_Witness ==
  /\ prog \in AsyncPrograms
  /\ obs.settled # Null
  /\ obs.settled.kind = "tick"
  /\ obs.settled.trace = << "shell", "reset", "init", "shell", "throw" >>
  /\ running

\* the phone state and the caller of the snapshot the handler found
SeenState(st) == http.seen # Null /\ http.seen.phoneState = st
SeenCaller == http.seen # Null /\ http.seen.callerID # Str("")

\* the cases in which the claim lets the endpoint issue its device command
Permitted ==
  CASE http.endpoint = "acceptcall" -> SeenState("RINGING")
    [] http.endpoint = "rejectcall" -> SeenState("RINGING") /\ SeenCaller
    [] http.endpoint = "stopcall"   ->
         http.seen # Null /\ http.seen.phoneState # "IDLE" /\ SeenCaller
    [] http.endpoint = "startcall"  ->
         /\ http.phoneNumber \notin {Undefined, Null, Str("")}
         /\ http.seen = Null \/ SeenState("IDLE")
    [] OTHER -> FALSE

\* C17: /api/acceptcall, /api/rejectcall, /api/stopcall and /api/startcall
\* call their device function only in the state the endpoint is meant for
\* (RINGING; RINGING with a caller; not IDLE with a caller; a phone number
\* and callStatus null or IDLE), and in every other case answer 400 and
\* issue no device command.
C17_CallControlGuards ==
  (http.endpoint \in {"acceptcall", "rejectcall", "stopcall", "startcall"} /\ ~Permitted) =>
    http.status = 400 /\ http.started = "none"

\* C18: overlapping ticks update the snapshot in the order they were
\* started: a dump whose fetch began earlier is never classified after one
\* whose fetch began later.
C18_ClassifiedInStartOrder ==
  \A i, j \in 1..Len(obs.published) : i < j => obs.published[i] < obs.published[j]

\* C19: from the /api/startcall that was accepted to the next tick that
\* reports IDLE, every /api/startcall with a phone number is answered 400.
C19_OneDialPerCall ==
  (http.endpoint = "startcall" /\ Truthy(http.phoneNumber) /\ http.pending) =>
    http.status = 400 /\ http.started = "none"

\* C20: every endpoint answers 200 or 400 and raises no exception, whatever
\* callStatus is, null included.
C20_EndpointsNeverRaise ==
  http.n > 0 => http.status \in {200, 400} /\ ~http.raised

\* the ids of the devices the call has handed to client.shell so far
SerialsOf(call) == {call.serials[i] : i \in 1..Len(call.serials)}

\* the calls of the four device functions: those in flight and the latest
\* settled
DeviceCalls == tasks \cup (IF obs.settled # Null THEN {obs.settled} ELSE {})

\* C21: whatever the interleaving of the poll ticks and the requests, no
\* call of getTelephoneDump, callPhoneNumber, endCall or acceptCall hands a
\* null deviceId to client.shell: every shell command carries the id set
\* by a completed initDevice.
C21_ShellHasDeviceId ==
  \A call \in DeviceCalls : Null \notin SerialsOf(call)

\* the step in which the fetch of a poll tick fails for good: the tick
\* leaves the calls in flight and one more adb operation has failed
FetchFails ==
  /\ obs'.failures = obs.failures + 1
  /\ \E task \in tasks : task.kind = "tick" /\ tasks' = tasks \ {task}

\* the step in which a poll tick updates the snapshot
Publishes == Len(obs'.published) = Len(obs.published) + 1

\* C22: a tick of the asynchronous pollers whose fetch fails, the retry
\* included, changes nothing: callStatus, prevPhoneState and
\* inCallStartTime stay as the last tick that completed left them and the
\* poller keeps running; the next tick that completes classifies against
\* that state, whatever failed in between.
C22_FailedTickKeepsState ==
  [][ /\ FetchFails =>
           /\ callStatus' = callStatus
           /\ prevPhoneState' = prevPhoneState
           /\ inCallStartTime' = inCallStartTime
           /\ running' = running
      /\ (Published /\ Publishes) =>
           /\ last'.prev = last.read.phoneState
           /\ last'.start = TimerFrom(last.read.phoneState,
                                      [prev |-> last.prev, start |-> last.start], last.t1)
    ]_vars

\* a tick found the call in progress; the fetch of a later tick failed, its
\* retry too, and the snapshot and the timer are still those of the call
C22_Witness ==
  /\ Published
  /\ running
  /\ obs.settled # Null
  /\ obs.settled.kind = "tick"
  /\ obs.settled.pc = "failed"
  /\ obs.settled.shells = 2
  /\ last.read.phoneState = "IN_CALL"
  /\ prevPhoneState = "IN_CALL"
  /\ callStatus.phoneState = "IN_CALL"
  /\ inCallStartTime = Num(last.t1)

=============================================================================
